---- MODULE Spec2Model ----
(***************************************************************************)
(* The hand lifecycle engine of the Texas Hold'em server                   *)
(* (poker/server/server.go): one table, its seated players, one hand and   *)
(* the hand's bet log, driven by the StartRound, MakeBet and SetNextRound  *)
(* RPCs.  Every RPC is one atomic step over the record store.              *)
(*                                                                         *)
(* Cards are counted, not named: a deck is the number of cards left in it, *)
(* hole cards and community cards are the number of cards held.  The hand  *)
(* evaluator is an oracle: the winner handed to EvaluateHands is any       *)
(* player of the hand.                                                     *)
(***************************************************************************)
EXTENDS Integers, Sequences, FiniteSets, TLC

\* ------------------------------------------------------------------ bounds
MaxPlayers == 3
MaxBets == 11
MaxRaises == 1
MaxStackBets == 4

\* ---------------------------------------------------------------- constants
NOT_STARTED == 0
PRE_FLOP == 1
FLOP == 2
RIVER == 3
TURN == 4
SHOW == 5
OVER == 6

FullDeck == 52
MinSeats == 2
MaxSeats == 8

BetTypes == {"NONE", "FOLD", "CALL", "RAISE", "SMALL", "BIG"}

ErrGameIsNotInRound == "game is not in round"
ErrNoBetsAllowed == "no bets allowed for round status"
ErrWrongBetStatus == "wrong bet status"
ErrPlayerDoesntExist == "player doesn't exist"
ErrPlayerNotOnAction == "player not on action, can not bet"
ErrPlayerNotInHand == "the given player is not in hand and can not perform that action"
ErrInsufficientBet == "insufficient bet for game minimum"
ErrInsufficientChips == "player doesn't have enough chips"
ErrIncorrectBetForBetType == "incorrect amount of chips for the given bet"
ErrWrongBetType == "wrong bet type"
ErrNoBetTypeSet == "no bet type set"
ErrIncompleteBets == "wrong number of bets for round"
ErrExistingCards == "player already has cards"
ErrDeckNotFull == "deck is not full"
ErrNoExistingCards == "expecting existing cards, but no cards for player in hand"
ErrInvalidPlayerCount == "can not create game with supplied count of players"
ErrDealerNotSet == "dealer not set"
ErrGameInRound == "can not perform operation when game is in round"
ErrInvalidSlotNumber == "slot value invalid must be between 1-8"
ErrInvalidButtonAllocation == "buttons are not allocated correctly"
ErrNoBetSet == "no bet set for game"
ErrPlayerNotSet == "player not set"
NoErr == ""

\* --------------------------------------------------------------- the store
VARIABLES
    players,   \* Players rows: id -> [chips, slot, in_hand, cards]
    game,      \* the Games row: [dealer, min, in_round]
    round,     \* the Rounds row: [status, action, deck, flop, river, turn,
               \*   winning_player, winning_score, winning_hand]
    bets,      \* the Bets rows of the hand, in insertion order
    buyIn,     \* each player's chips when the hand was created
    calls,     \* the MakeBet calls in flight: [in, pc, chips, err, start]
    lobby      \* the tables before a hand: [gp, slot, games]

vars == <<players, game, round, bets, buyIn, calls, lobby>>

\* The store as one value, as the handlers read it.
Store == [players |-> players, game |-> game, round |-> round, bets |-> bets]

Ok(s) == [s |-> s, err |-> NoErr]
Fail(s, e) == [s |-> s, err |-> e]

Ids(s) == DOMAIN s.players

RECURSIVE SumChips(_)
SumChips(bs) == IF bs = <<>> THEN 0 ELSE Head(bs).chips + SumChips(Tail(bs))

Max(S) == CHOOSE x \in S : \A y \in S : y <= x

\* ------------------------------------------------------------ the seat ring
\* NewRing: the table's players in increasing slot order, cursor on the first.
RingLen(s) == Cardinality(Ids(s))

RingPos(s, p) ==
    1 + Cardinality({q \in Ids(s) :
            \/ s.players[q].slot < s.players[p].slot
            \/ s.players[q].slot = s.players[p].slot /\ q < p})

RingAt(s, i) == CHOOSE p \in Ids(s) : RingPos(s, p) = i

RingNext(s, i) == (i % RingLen(s)) + 1

headsUp(s) == RingLen(s) = 2

\* CurrentDealer: the ring position of the player on the dealer slot, 0 if none.
CurrentDealer(s) ==
    LET hit == {i \in 1..RingLen(s) : s.players[RingAt(s, i)].slot = s.game.dealer}
    IN  IF hit = {} THEN 0 ELSE CHOOSE i \in hit : \A j \in hit : i <= j

\* CurrentSmallBlind without the heads-up rule.
CurrentSmallBlind_NoHeadsUp(s) ==
    LET d == CurrentDealer(s)
    IN  IF d = 0 THEN 0 ELSE RingNext(s, d)

\* CurrentSmallBlind: the dealer heads-up, else the position after the dealer.
CurrentSmallBlind(s) ==
    LET d == CurrentDealer(s)
    IN  IF d = 0 THEN 0
        ELSE IF headsUp(s) THEN d
        ELSE RingNext(s, d)

\* CurrentBigBlind: the non-dealer heads-up, else the position after the small blind.
CurrentBigBlind(s) ==
    LET d == CurrentDealer(s)
    IN  IF d = 0 THEN 0
        ELSE IF headsUp(s) THEN RingNext(s, d)
        ELSE RingNext(s, CurrentSmallBlind(s))

\* GetPlayerFromSlot: the ring position of the player on a slot, 0 if none.
GetPlayerFromSlot(s, slot) ==
    LET hit == {i \in 1..RingLen(s) : s.players[RingAt(s, i)].slot = slot}
    IN  IF hit = {} THEN 0 ELSE CHOOSE i \in hit : \A j \in hit : i <= j

\* NextInHand: from the position strictly after `from`, the first position whose
\* player is in hand, wrapping around (back to `from` itself at the end); 0 if none.
NextInHand(s, from) ==
    LET n == RingLen(s)
        at(k) == ((from - 1 + k) % n) + 1
        hit == {k \in 1..n : s.players[RingAt(s, at(k))].in_hand}
    IN  IF hit = {} THEN 0 ELSE at(CHOOSE k \in hit : \A j \in hit : k <= j)

\* FirstOnBet: the first player in hand after the dealer; 0 if none (or no dealer).
FirstOnBet(s) ==
    LET d == CurrentDealer(s)
    IN  IF d = 0 THEN 0 ELSE NextInHand(s, d)

\* --------------------------------------------------------- bets of a street
GetRoundBetsForStatus(s, status) == SelectSeq(s.bets, LAMBDA b : b.status = status)

BetsOf(bs, p) == SelectSeq(bs, LAMBDA b : b.player = p)

IsLive(b) == b.type \in {"CALL", "RAISE", "BIG", "SMALL"}

\* GetAmountToCallForPlayer: every bet row of the street counts, whatever its type.
GetAmountToCallForPlayer(s, p) ==
    LET bs == GetRoundBetsForStatus(s, s.round.status)
        who == {bs[i].player : i \in 1..Len(bs)}
        m(q) == SumChips(BetsOf(bs, q))
        bigBet == Max({0} \cup {m(q) : q \in who})
        playerBet == IF p \in who THEN m(p) ELSE 0
    IN  IF bigBet > playerBet THEN bigBet - playerBet ELSE 0

\* IsBettingOver: as many live bettors on the street as players in hand, all
\* live totals equal.
IsBettingOver(s) ==
    LET bs == SelectSeq(GetRoundBetsForStatus(s, s.round.status), IsLive)
        activePlayers == Cardinality({p \in Ids(s) : s.players[p].in_hand})
        who == {bs[i].player : i \in 1..Len(bs)}
        liveBetMap(q) == SumChips(BetsOf(bs, q))
        bigBet == Max({0} \cup {liveBetMap(q) : q \in who})
        uniqueBets == Cardinality(who)
    IN  IF activePlayers > uniqueBets THEN FALSE
        ELSE IF \E q \in who : liveBetMap(q) # bigBet THEN FALSE
        ELSE activePlayers = uniqueBets

statusIsValidForBet(status) == status \in {PRE_FLOP, FLOP, RIVER, TURN, SHOW}

\* validateChips with the two tests in the other order.
validateChips_BankFirst(bank, bet, min) ==
    IF bank < bet THEN ErrInsufficientChips
    ELSE IF bet < min THEN ErrInsufficientBet
    ELSE NoErr

validateChips(bank, bet, min) ==
    IF bet < min THEN ErrInsufficientBet
    ELSE IF bank < bet THEN ErrInsufficientChips
    ELSE NoErr

\* ------------------------------------------------------------ row updates
\* UpdateRoundStatus: a struct update of the Rounds row, which writes the
\* non-zero fields of r only; the status column is a string and never zero.
UpdateRoundStatus(s, r) ==
    [s EXCEPT !.round =
        [f \in DOMAIN s.round |->
            IF f = "status" \/ r[f] # 0 THEN r[f] ELSE s.round[f]]]

SetAction(s, action) == [s EXCEPT !.round.action = action]

UpdateDeck(s, deck) == [s EXCEPT !.round.deck = deck]

UpdatePlayerNotinHand(s, p) == [s EXCEPT !.players[p].in_hand = FALSE]

\* UpdatePlayersChips that writes nothing.
UpdatePlayersChips_Keep(s, p, chips) == s

UpdatePlayersChips(s, p, chips) == [s EXCEPT !.players[p].chips = chips]

\* UpdatePlayersCards: two hole cards for every player given, and in_hand set.
UpdatePlayersCards(s, ps) ==
    [s EXCEPT !.players =
        [p \in Ids(s) |->
            IF p \in ps THEN [s.players[p] EXCEPT !.cards = 2, !.in_hand = TRUE]
            ELSE s.players[p]]]

UpdateGameInRound(s) == [s EXCEPT !.game.in_round = TRUE]

UpdateGameStatus(s) == [s EXCEPT !.game.in_round = FALSE]

\* AllocateGameSlots: slots 1..N in the order the store lists the players.
AllocateGameSlots(s) ==
    IF RingLen(s) < MinSeats \/ RingLen(s) > MaxSeats
    THEN Fail(s, ErrInvalidPlayerCount)
    ELSE Ok([s EXCEPT !.players =
                [p \in Ids(s) |->
                    [s.players[p] EXCEPT
                        !.slot = 1 + Cardinality({q \in Ids(s) : q < p})]]])

\* ----------------------------------------------------------------- dealing
CreateDeck(s) == [s EXCEPT !.round.deck = FullDeck]

NoCardsInHand(s) == \E p \in Ids(s) : s.players[p].in_hand /\ s.players[p].cards = 0

\* DealCards without the burn.
DealCards_NoBurn(s) ==
    IF \E p \in Ids(s) : s.players[p].cards # 0 THEN Fail(s, ErrExistingCards)
    ELSE IF s.round.deck # FullDeck THEN Fail(s, ErrDeckNotFull)
    ELSE Ok(UpdateDeck(UpdatePlayersCards(s, Ids(s)),
                       s.round.deck - 2 * Cardinality(Ids(s))))

\* DealCards: burn one, two cards to every player of the hand.
DealCards(s) ==
    IF \E p \in Ids(s) : s.players[p].cards # 0 THEN Fail(s, ErrExistingCards)
    ELSE IF s.round.deck # FullDeck THEN Fail(s, ErrDeckNotFull)
    ELSE Ok(UpdateDeck(UpdatePlayersCards(s, Ids(s)),
                       s.round.deck - 1 - 2 * Cardinality(Ids(s))))

\* DealFlop: burn one, three cards to the flop.
DealFlop(s) ==
    IF NoCardsInHand(s) THEN Fail(s, ErrNoExistingCards)
    ELSE Ok(UpdateDeck([s EXCEPT !.round.flop = 3], s.round.deck - 4))

\* DealRiver: burn one, one card to the river.
DealRiver(s) ==
    IF NoCardsInHand(s) THEN Fail(s, ErrNoExistingCards)
    ELSE Ok(UpdateDeck([s EXCEPT !.round.river = 1], s.round.deck - 2))

\* DealTurn: burn one, one card to the turn.
DealTurn(s) ==
    IF NoCardsInHand(s) THEN Fail(s, ErrNoExistingCards)
    ELSE Ok(UpdateDeck([s EXCEPT !.round.turn = 1], s.round.deck - 2))

\* ---------------------------------------------------------------- showdown
\* What the evaluator and the sort of the scored hands give for a hand:
\* w.score, the score of every player of the hand (folded ones included), and
\* w.first, the player whose hand the sort puts first, a lowest score.
Scores == {1, 7462}

SortedFirst(s, score) ==
    {p \in Ids(s) : \A q \in Ids(s) : score[p] <= score[q]}

Evaluations(s) ==
    {w \in [score : [Ids(s) -> Scores], first : Ids(s)] :
            w.first \in SortedFirst(s, w.score)}

\* EvaluateHands that takes the hand sorted last for the winner.
EvaluateHands_Last(s, w) ==
    LET winner == CHOOSE p \in Ids(s) : \A q \in Ids(s) : w.score[q] <= w.score[p]
    IN  [s.round EXCEPT !.winning_player = winner,
                        !.winning_score = w.score[winner],
                        !.winning_hand = s.players[winner].cards + s.round.flop
                                            + s.round.river + s.round.turn,
                        !.action = 0]

\* EvaluateHands: the in-memory round with the winner, the first of the sorted
\* hands, the winner's score, the winner's cards with the flop, the river and
\* the turn (counted), and action 0.
EvaluateHands(s, w) ==
    LET winner == w.first
    IN  [s.round EXCEPT !.winning_player = winner,
                        !.winning_score = w.score[winner],
                        !.winning_hand = s.players[winner].cards + s.round.flop
                                            + s.round.river + s.round.turn,
                        !.action = 0]

\* UpdateRoundWinner: the table leaves the hand, the evaluated round is saved.
UpdateRoundWinner(s, r) == Ok(UpdateRoundStatus(UpdateGameStatus(s), r))

\* The street after a status; a status without an entry maps to the zero value.
rMap(status) ==
    CASE status = PRE_FLOP -> FLOP
      [] status = FLOP -> RIVER
      [] status = RIVER -> TURN
      [] status = TURN -> SHOW
      [] status = SHOW -> OVER
      [] OTHER -> NOT_STARTED

SlotAt(s, i) == IF i = 0 THEN 0 ELSE s.players[RingAt(s, i)].slot

\* The new street with the action left where the last bet put it.
FirstOnBetAction_Keep(s) == s

\* SetNextRound: the action of the new street, the slot FirstOnBet returns
\* (0 when it returns nobody: its error is not looked at).
FirstOnBetAction(s) == SetAction(s, SlotAt(s, FirstOnBet(s)))

SetNextRound(s, w) ==
    IF ~IsBettingOver(s) THEN Fail(s, ErrIncompleteBets)
    ELSE
    LET nextRound == rMap(s.round.status)
        s1 == UpdateRoundStatus(s, [s.round EXCEPT !.status = nextRound])
        s2 == FirstOnBetAction(s1)
        dealt == CASE nextRound = FLOP -> DealFlop(s2)
                   [] nextRound = RIVER -> DealRiver(s2)
                   [] nextRound = TURN -> DealTurn(s2)
                   [] OTHER -> Ok(s2)
        c == Cardinality({p \in Ids(s) : dealt.s.players[p].in_hand})
    IN  IF dealt.err # NoErr THEN dealt
        ELSE IF nextRound = OVER \/ c = 1
             THEN UpdateRoundWinner(dealt.s, EvaluateHands(dealt.s, w))
        ELSE dealt

\* SetNextOnBet that moves to the next seat, in hand or not.
SetNextOnBet_Seat(s) ==
    LET p == GetPlayerFromSlot(s, s.round.action)
    IN  IF p = 0 THEN Fail(s, ErrPlayerNotSet)
        ELSE Ok(SetAction(s, SlotAt(s, RingNext(s, p))))

\* SetNextOnBet that leaves the action where it is.
SetNextOnBet_Stay(s) == Ok(s)

\* SetNextOnBet: the action moves to the next player in hand after the one on it.
SetNextOnBet(s) ==
    LET p == GetPlayerFromSlot(s, s.round.action)
        nextAction == IF p = 0 THEN 0 ELSE NextInHand(s, p)
    IN  IF p = 0 \/ nextAction = 0 THEN Fail(s, ErrPlayerNotSet)
        ELSE Ok(SetAction(s, SlotAt(s, nextAction)))

\* ------------------------------------------------------------------ MakeBet
\* The checks of a bet, first failure first; NoErr when the bet is accepted.
\* MakeBetRound with the status of the bet compared first.
MakeBetRound_StatusFirst(s, in) ==
    IF s.round.status # in.status THEN ErrWrongBetStatus
    ELSE IF ~s.game.in_round THEN ErrGameIsNotInRound
    ELSE IF ~statusIsValidForBet(s.round.status) THEN ErrNoBetsAllowed
    ELSE NoErr

\* The table and the hand take bets, and this bet is for the hand's street.
MakeBetRound(s, in) ==
    IF ~s.game.in_round THEN ErrGameIsNotInRound
    ELSE IF ~statusIsValidForBet(s.round.status) THEN ErrNoBetsAllowed
    ELSE IF s.round.status # in.status THEN ErrWrongBetStatus
    ELSE NoErr

\* MakeBetPlayer letting any seat bet.
MakeBetPlayer_AnySeat(s, in) ==
    IF in.player \notin Ids(s) THEN ErrPlayerDoesntExist
    ELSE IF ~s.players[in.player].in_hand THEN ErrPlayerNotInHand
    ELSE NoErr

\* The bettor exists, sits on the action and is in the hand.
MakeBetPlayer(s, in) ==
    IF in.player \notin Ids(s) THEN ErrPlayerDoesntExist
    ELSE IF s.round.action # s.players[in.player].slot THEN ErrPlayerNotOnAction
    ELSE IF ~s.players[in.player].in_hand THEN ErrPlayerNotInHand
    ELSE NoErr

\* The CALL branch: the chips, then the exact amount to call.
MakeBetCALL(bank, bet, tableMinBetRequired) ==
    LET chipsErr == validateChips(bank, bet, tableMinBetRequired)
    IN  IF chipsErr # NoErr THEN chipsErr
        ELSE IF bet < tableMinBetRequired THEN ErrInsufficientBet
        ELSE IF bet # tableMinBetRequired THEN ErrIncorrectBetForBetType
        ELSE NoErr

\* The RAISE branch taking a raise of exactly the amount to call.
MakeBetRAISE_Equal(bank, bet, tableMinBetRequired) ==
    LET chipsErr == validateChips(bank, bet, tableMinBetRequired)
    IN  IF chipsErr # NoErr THEN chipsErr
        ELSE IF bet < tableMinBetRequired THEN ErrWrongBetType
        ELSE NoErr

\* The RAISE branch: the chips, then more than the amount to call.
MakeBetRAISE(bank, bet, tableMinBetRequired) ==
    LET chipsErr == validateChips(bank, bet, tableMinBetRequired)
    IN  IF chipsErr # NoErr THEN chipsErr
        ELSE IF bet <= tableMinBetRequired THEN ErrWrongBetType
        ELSE NoErr

MakeBetCheck(s, in) ==
    IF MakeBetRound(s, in) # NoErr THEN MakeBetRound(s, in)
    ELSE IF MakeBetPlayer(s, in) # NoErr THEN MakeBetPlayer(s, in)
    ELSE
    LET tableMinBetRequired == GetAmountToCallForPlayer(s, in.player)
        bank == s.players[in.player].chips
    IN  CASE in.type = "CALL" -> MakeBetCALL(bank, in.chips, tableMinBetRequired)
          [] in.type = "RAISE" -> MakeBetRAISE(bank, in.chips, tableMinBetRequired)
          [] in.type = "NONE" -> ErrNoBetTypeSet
          [] OTHER -> NoErr

\* The writes of a validated bet, up to the closure test: the fold, the bet
\* row, the action moved on, the chips debited.  A failure to move the action
\* returns with the fold and the row already written.
PlaceBet(s, in) ==
    LET folded == IF in.type = "FOLD" THEN UpdatePlayerNotinHand(s, in.player)
                  ELSE s
        created == [folded EXCEPT !.bets = Append(@,
                      [status |-> in.status, player |-> in.player,
                       chips |-> in.chips, type |-> in.type])]
        moved == SetNextOnBet(created)
    IN  IF moved.err # NoErr THEN moved
        ELSE Ok(UpdatePlayersChips(moved.s, in.player,
                    moved.s.players[in.player].chips - in.chips))

\* MakeBet that processes a fold before it validates the request.
MakeBet_FoldFirst(s, in, w) ==
    LET e == MakeBetCheck(s, in)
        placed == PlaceBet(s, in)
    IN  IF e # NoErr
        THEN Fail(IF in.type = "FOLD" THEN UpdatePlayerNotinHand(s, in.player) ELSE s, e)
        ELSE IF placed.err # NoErr THEN placed
        ELSE IF IsBettingOver(placed.s) THEN SetNextRound(placed.s, w)
        ELSE placed

MakeBet(s, in, w) ==
    LET e == MakeBetCheck(s, in)
        placed == PlaceBet(s, in)
    IN  IF e # NoErr THEN Fail(s, e)
        ELSE IF placed.err # NoErr THEN placed
        ELSE IF IsBettingOver(placed.s) THEN SetNextRound(placed.s, w)
        ELSE placed

\* --------------------------------------------------------------- StartRound
\* The blinds of StartRound, the action put back on the small blind after them.
PostBlinds_OnSmall(s, small, big, w) ==
    LET onSmall == SetAction(s, SlotAt(s, small))
        smallBet == MakeBet(onSmall,
                        [status |-> PRE_FLOP, player |-> RingAt(onSmall, small),
                         chips |-> onSmall.game.min, type |-> "SMALL"], w)
        bigBet == MakeBet(smallBet.s,
                        [status |-> PRE_FLOP, player |-> RingAt(onSmall, big),
                         chips |-> onSmall.game.min * 2, type |-> "BIG"], w)
    IN  IF smallBet.err # NoErr THEN smallBet
        ELSE IF bigBet.err # NoErr THEN bigBet
        ELSE Ok(SetAction(bigBet.s, SlotAt(s, small)))

\* The blinds of StartRound: the action on the small blind, then the SMALL and
\* the BIG bet through MakeBet, which moves the action on after each.
PostBlinds(s, small, big, w) ==
    LET onSmall == SetAction(s, SlotAt(s, small))
        smallBet == MakeBet(onSmall,
                        [status |-> PRE_FLOP, player |-> RingAt(onSmall, small),
                         chips |-> onSmall.game.min, type |-> "SMALL"], w)
        bigBet == MakeBet(smallBet.s,
                        [status |-> PRE_FLOP, player |-> RingAt(onSmall, big),
                         chips |-> onSmall.game.min * 2, type |-> "BIG"], w)
    IN  IF smallBet.err # NoErr THEN smallBet
        ELSE bigBet

StartRound(s, w) ==
    LET dealt == DealCards(CreateDeck(s))
        started == UpdateGameInRound(
                      UpdateRoundStatus(dealt.s, [dealt.s.round EXCEPT !.status = PRE_FLOP]))
        seated == AllocateGameSlots(started)
        small == CurrentSmallBlind(seated.s)
        big == CurrentBigBlind(seated.s)
    IN  IF dealt.err # NoErr THEN dealt
        ELSE IF seated.err # NoErr THEN seated
        ELSE IF small = 0 \/ big = 0 THEN Fail(seated.s, ErrDealerNotSet)
        ELSE PostBlinds(seated.s, small, big, w)

\* ------------------------------------------------------------ the machine
\* What a client may put in a bet, and the tables the hand is created from.
BetChips == {0, 1, 2}
StartChips == {3}
MinChips == {1}
Statuses == NOT_STARTED..OVER

\* Tables of uneven stacks, and the larger bets they allow.
Stacks == {2, 4}
StackBetChips == {0, 1, 2, 3}

BetInputsOf(s, chips) ==
    [status : Statuses, player : Ids(s), chips : chips, type : BetTypes]

BetInputs(s) == BetInputsOf(s, BetChips)

StackInputs(s) == BetInputsOf(s, StackBetChips)

\* A bet that puts new chips on the street without being asked to.
IsRaise(b) == b.type \in {"RAISE", "SMALL", "BIG"} \/ (b.type = "FOLD" /\ b.chips # 0)

\* The rows a client added after the two blinds.
ClientBets == SubSeq(bets, 3, Len(bets))

\* ------------------------------------------------------------- the lobby
\* The tables and the players before a hand: gp, the GamePlayers rows
\* <<game, player>>; slot, the slot column of each player; games, the Games
\* rows.
MaxLobbyPlayers == 3
MaxGames == 2

LobbyPlayers == 1..MaxLobbyPlayers
Games == 1..MaxGames
LobbyMins == {1}

\* CreateGame and CreatePlayers done, nobody joined.
EmptyLobby ==
    [gp |-> {},
     slot |-> [p \in LobbyPlayers |-> 0],
     games |-> [g \in Games |-> [dealer |-> 0, min |-> 0, in_round |-> FALSE]]]

LOk(l) == [l |-> l, err |-> NoErr]
LFail(l, e) == [l |-> l, err |-> e]

GetGamePlayersByGameId(l, g) == {p \in LobbyPlayers : <<g, p>> \in l.gp}

\* GetGame: the Games row with its players.
GetGame(l, g) ==
    [players |-> [p \in GetGamePlayersByGameId(l, g) |-> [slot |-> l.slot[p]]],
     game |-> l.games[g]]

\* SetGamePlayers: the players asked for who are not on the table yet join it.
SetGamePlayers(l, g, asked) ==
    LOk([l EXCEPT !.gp = @ \cup {<<g, p>> : p \in asked}])

\* AllocateGameSlots on a table as GetGame returns it.
AllocateTableSlots(l, g) ==
    LET res == AllocateGameSlots(GetGame(l, g))
    IN  IF res.err # NoErr THEN LFail(l, res.err)
        ELSE LOk([l EXCEPT !.slot =
                [p \in LobbyPlayers |->
                    IF p \in Ids(res.s) THEN res.s.players[p].slot ELSE @[p]]])

\* SetButtonPositions: the dealer on a slot drawn from 1..N.
SetButtonPositions(l, g, d) == LOk([l EXCEPT !.games[g].dealer = d])

\* SetMin: a struct update, a zero min is not written.
SetMin(l, g, m) ==
    LOk([l EXCEPT !.games[g].min = IF m = 0 THEN @ ELSE m])

\* UpdateGameInRound on a table of the lobby.
UpdateTableInRound(l, g) == LOk([l EXCEPT !.games[g] = UpdateGameInRound(GetGame(l, g)).game])

\* NextDealer: the ring is built from the request (its dealer, with the
\* players as GetGame returned them), the new dealer is the slot of the
\* request ring's small blind; dealer and the request's min are written with
\* a struct update, zero values skipped.
NextDealer(l, g, req) ==
    LET asked == [GetGame(l, g) EXCEPT !.game.dealer = req.dealer, !.game.min = req.min]
        small == CurrentSmallBlind(asked)
        newDealer == SlotAt(asked, small)
    IN  IF small = 0 THEN LFail(l, ErrDealerNotSet)
        ELSE LOk([l EXCEPT
                !.games[g].min = IF req.min = 0 THEN @ ELSE req.min,
                !.games[g].dealer = IF newDealer = 0 THEN @ ELSE newDealer])

\* ValidatePreGame: not in a hand, every slot in 1..8, the sorted slots
\* strictly increasing, a dealer, a min.
ValidatePreGame(s) ==
    IF s.game.in_round THEN ErrGameInRound
    ELSE IF \E p \in Ids(s) : s.players[p].slot < 1 \/ s.players[p].slot > MaxSeats
        THEN ErrInvalidSlotNumber
    ELSE IF \E p, q \in Ids(s) : p # q /\ s.players[p].slot = s.players[q].slot
        THEN ErrInvalidSlotNumber
    ELSE IF s.game.dealer = 0 THEN ErrInvalidButtonAllocation
    ELSE IF s.game.min < 1 THEN ErrNoBetSet
    ELSE NoErr

\* RemovePlayerFromGame: one GamePlayers row of the player is read (which one
\* the query returns is not fixed), its table must not be in a hand, and
\* every GamePlayers row of the player is deleted.  The set of outcomes.
RemovePlayerFromGame(l, p) ==
    LET rows == {r \in l.gp : r[2] = p}
    IN  IF rows = {} THEN {LFail(l, ErrPlayerDoesntExist)}
        ELSE {IF l.games[r[1]].in_round THEN LFail(l, ErrGameInRound)
              ELSE LOk([l EXCEPT !.gp = @ \ rows]) : r \in rows}

\* CreateRoundFromGame on a table that passed ValidatePreGame: N players on
\* slots 1..N, a dealer among them, a minimum set, nothing dealt.
CreateRoundFromGame(seats, stacks) ==
    \E n \in seats :
        /\ \E c \in [1..n -> stacks] :
                /\ players = [p \in 1..n |->
                        [chips |-> c[p], slot |-> p, in_hand |-> FALSE, cards |-> 0]]
                /\ buyIn = c
                /\ calls = <<>>
                /\ lobby = EmptyLobby
        /\ \E d \in 1..n, m \in MinChips :
                game = [dealer |-> d, min |-> m, in_round |-> FALSE]
        /\ round = [status |-> NOT_STARTED, action |-> 0, deck |-> FullDeck,
                    flop |-> 0, river |-> 0, turn |-> 0, winning_player |-> 0,
                    winning_score |-> 0, winning_hand |-> 0]
        /\ bets = <<>>

Init == CreateRoundFromGame(MinSeats..MaxPlayers, StartChips)

Apply(res) ==
    /\ players' = res.s.players
    /\ game' = res.s.game
    /\ round' = res.s.round
    /\ bets' = res.s.bets
    /\ UNCHANGED <<buyIn, calls, lobby>>

\* One evaluation, for the handlers that do not reach the showdown.
NoShowdown(s) ==
    [score |-> [p \in Ids(s) |-> 1], first |-> CHOOSE p \in Ids(s) : TRUE]

\* The evaluations a handler may get when it reaches the showdown; one
\* stand-in when it does not get there.
Oracle(s, ends) == IF ends THEN Evaluations(s) ELSE {NoShowdown(s)}

\* A handler result that went through SetNextRound to the showdown: no
\* error, a new status, a winner stored.
Evaluates(s, res) ==
    /\ res.err = NoErr
    /\ res.s.round.status # s.round.status
    /\ res.s.round.winning_player # 0

StartRoundRPC ==
    \E r0 \in {StartRound(Store, NoShowdown(Store))} :
        \E w \in Oracle(Store, Evaluates(Store, r0)) :
            \E res \in {StartRound(Store, w)} : Apply(res)

\* An accepted bet changes the store; a refused one leaves it as it was.
MakeBetFrom(inputs, maxBets) ==
    \/ \E in \in {i \in inputs : i.status = round.status} :
            /\ MakeBetCheck(Store, in) = NoErr
            /\ Len(bets) < maxBets
            /\ IsRaise(in) => Len(SelectSeq(ClientBets, IsRaise)) < MaxRaises
            /\ \E r0 \in {MakeBet(Store, in, NoShowdown(Store))} :
                   \E w \in Oracle(Store, Evaluates(Store, r0)) :
                       \E res \in {MakeBet(Store, in, w)} : Apply(res)
    \/ /\ ~(\A in \in inputs : MakeBetCheck(Store, in) = NoErr)
       /\ Apply(Fail(Store, NoErr))

MakeBetRPC == MakeBetFrom(BetInputs(Store), MaxBets)

SetNextRoundRPC ==
    \E r0 \in {SetNextRound(Store, NoShowdown(Store))} :
        \E w \in Oracle(Store, Evaluates(Store, r0)) :
            \E res \in {SetNextRound(Store, w)} : Apply(res)

Next == StartRoundRPC \/ MakeBetRPC \/ SetNextRoundRPC

Spec == Init /\ [][Next]_vars

\* Tables of uneven stacks, for the first bets after the blinds.
InitStacks == CreateRoundFromGame(MinSeats..MaxPlayers, Stacks)

MakeBetStacksRPC == MakeBetFrom(StackInputs(Store), MaxStackBets)

NextStacks == StartRoundRPC \/ MakeBetStacksRPC

SpecStacks == InitStacks /\ [][NextStacks]_vars

\* Tables of every size the server seats, for the start of the hand.
InitSeats == CreateRoundFromGame(MinSeats..MaxSeats, StartChips)

NextSeats == StartRoundRPC

SpecSeats == InitSeats /\ [][NextSeats]_vars

\* ------------------------------------------------ two MakeBet calls at once
\* The server takes no lock and opens no transaction: each call runs in its
\* own goroutine and its store reads and writes interleave with the other's.
\* A call is taken in two steps: the reads and the validation (with the fold
\* it writes), then the writes of the validated bet.
RaceTypes == {"FOLD", "CALL", "RAISE"}

RaceInputs(s) ==
    {in \in BetInputs(s) : in.status = s.round.status /\ in.type \in RaceTypes}

\* The rest of MakeBet after the validation: the bet row, the action moved
\* on, the chips debited from the player row read before the validation, the
\* closure test.
MakeBetWrites(s, in, chips, w) ==
    LET created == [s EXCEPT !.bets = Append(@,
                      [status |-> in.status, player |-> in.player,
                       chips |-> in.chips, type |-> in.type])]
        moved == SetNextOnBet(created)
        paid == UpdatePlayersChips(moved.s, in.player, chips - in.chips)
    IN  IF moved.err # NoErr THEN moved
        ELSE IF IsBettingOver(paid) THEN SetNextRound(paid, w)
        ELSE Ok(paid)

SetCall(c, pc, chips, err) ==
    calls' = [calls EXCEPT ![c].pc = pc, ![c].chips = chips, ![c].err = err]

\* Two clients send a bet each for the street the hand is on.
SendBets ==
    /\ calls = <<>>
    /\ game.in_round
    /\ \E inA, inB \in RaceInputs(Store) :
            calls' = <<[in |-> inA, pc |-> "sent", chips |-> 0, err |-> NoErr,
                        start |-> Store],
                       [in |-> inB, pc |-> "sent", chips |-> 0, err |-> NoErr,
                        start |-> Store]>>
    /\ UNCHANGED <<players, game, round, bets, buyIn, lobby>>

\* A call reads the table, the hand, the player and the bets, and validates;
\* a refused call returns, a fold is written.
ValidateBet(c) ==
    /\ c \in DOMAIN calls
    /\ calls[c].pc = "sent"
    /\ LET in == calls[c].in
           e == MakeBetCheck(Store, in)
       IN  IF e # NoErr
           THEN /\ SetCall(c, "done", 0, e)
                /\ UNCHANGED <<players, game, round, bets, buyIn, lobby>>
           ELSE /\ SetCall(c, "validated", players[in.player].chips, NoErr)
                /\ players' = IF in.type = "FOLD"
                                THEN UpdatePlayerNotinHand(Store, in.player).players
                                ELSE players
                /\ UNCHANGED <<game, round, bets, buyIn, lobby>>

\* A validated call writes its bet and returns.
WriteBet(c) ==
    /\ c \in DOMAIN calls
    /\ calls[c].pc = "validated"
    /\ \E r0 \in {MakeBetWrites(Store, calls[c].in, calls[c].chips, NoShowdown(Store))} :
          \E w \in Oracle(Store, Evaluates(Store, r0)) :
            \E res \in {MakeBetWrites(Store, calls[c].in, calls[c].chips, w)} :
                /\ players' = res.s.players
                /\ game' = res.s.game
                /\ round' = res.s.round
                /\ bets' = res.s.bets
                /\ SetCall(c, "done", calls[c].chips, res.err)
                /\ UNCHANGED <<buyIn, lobby>>

StartRoundAlone == calls = <<>> /\ StartRoundRPC

NextRace ==
    \/ StartRoundAlone
    \/ SendBets
    \/ \E c \in 1..2 : ValidateBet(c)
    \/ \E c \in 1..2 : WriteBet(c)

SpecRace == Init /\ [][NextRace]_vars

\* The stores that running two calls one after the other from a store can
\* leave.
SerialRuns(s, inA, inB) ==
    UNION {
        LET rA == MakeBet(s, inA, wA)
        IN  { MakeBet(rA.s, inB, wB).s :
                wB \in Oracle(rA.s, Evaluates(rA.s, MakeBet(rA.s, inB, NoShowdown(rA.s)))) }
        : wA \in Oracle(s, Evaluates(s, MakeBet(s, inA, NoShowdown(s)))) }

BothReturned == Len(calls) = 2 /\ calls[1].pc = "done" /\ calls[2].pc = "done"

\* ------------------------------------------------------- the lobby machine
NextDealerRequests == [dealer : 0..MaxLobbyPlayers, min : {0} \cup LobbyMins]

ApplyLobby(res) ==
    /\ lobby' = res.l
    /\ UNCHANGED <<players, game, round, bets, buyIn, calls>>

SetGamePlayersRPC ==
    \E g \in Games, asked \in SUBSET LobbyPlayers :
        ApplyLobby(SetGamePlayers(lobby, g, asked))

AllocateGameSlotsRPC == \E g \in Games : ApplyLobby(AllocateTableSlots(lobby, g))

SetButtonPositionsRPC ==
    \E g \in Games : \E d \in 1..Cardinality(GetGamePlayersByGameId(lobby, g)) :
        ApplyLobby(SetButtonPositions(lobby, g, d))

SetMinRPC == \E g \in Games, m \in LobbyMins : ApplyLobby(SetMin(lobby, g, m))

UpdateGameInRoundRPC == \E g \in Games : ApplyLobby(UpdateTableInRound(lobby, g))

NextDealerRPC ==
    \E g \in Games, req \in NextDealerRequests : ApplyLobby(NextDealer(lobby, g, req))

RemovePlayerFromGameRPC ==
    \E p \in LobbyPlayers : \E res \in RemovePlayerFromGame(lobby, p) : ApplyLobby(res)

InitLobby == CreateRoundFromGame({MinSeats}, StartChips) /\ game.dealer = 1

NextLobby ==
    \/ SetGamePlayersRPC
    \/ AllocateGameSlotsRPC
    \/ SetButtonPositionsRPC
    \/ SetMinRPC
    \/ UpdateGameInRoundRPC
    \/ NextDealerRPC
    \/ RemovePlayerFromGameRPC

SpecLobby == InitLobby /\ [][NextLobby]_vars

\* ------------------------------------------- hands of every accepted table
\* CreateRoundFromGame on every table ValidatePreGame accepts: any number of
\* players on distinct slots, the dealer on any slot, a minimum set.
InitLoose ==
    /\ \E n \in 1..MaxPlayers :
          \E seat \in [1..n -> 1..MaxPlayers] :
              /\ players = [p \in 1..n |->
                      [chips |-> CHOOSE c \in StartChips : TRUE, slot |-> seat[p],
                       in_hand |-> FALSE, cards |-> 0]]
              /\ buyIn = [p \in 1..n |-> CHOOSE c \in StartChips : TRUE]
    /\ calls = <<>>
    /\ lobby = EmptyLobby
    /\ \E d \in 0..MaxPlayers, m \in MinChips :
          game = [dealer |-> d, min |-> m, in_round |-> FALSE]
    /\ round = [status |-> NOT_STARTED, action |-> 0, deck |-> FullDeck,
                flop |-> 0, river |-> 0, turn |-> 0, winning_player |-> 0,
                winning_score |-> 0, winning_hand |-> 0]
    /\ bets = <<>>
    /\ ValidatePreGame(Store) = NoErr

NextLoose == StartRoundRPC \/ MakeBetStacksRPC \/ SetNextRoundRPC

SpecLoose == InitLoose /\ [][NextLoose]_vars

\* ---------------------------------------------- the hand played by the rules
\* Every request comes from the player on the seat the hand has on action and
\* is a CALL of the amount GetAmountToCallForPlayer gives them or a FOLD.
MaxLiveBets == 18

LegalBets(s) ==
    {in \in [status : {s.round.status}, player : Ids(s), chips : StackBetChips,
              type : {"CALL", "FOLD"}] :
        /\ s.players[in.player].slot = s.round.action
        /\ in.chips = IF in.type = "CALL"
                          THEN GetAmountToCallForPlayer(s, in.player) ELSE 0}

ActingCallsOrFolds ==
    \E in \in LegalBets(Store) :
        /\ Len(bets) < MaxLiveBets
        /\ \E r0 \in {MakeBet(Store, in, NoShowdown(Store))} :
               \E w \in Oracle(Store, Evaluates(Store, r0)) :
                   \E res \in {MakeBet(Store, in, w)} : Apply(res)

NextLive == StartRoundRPC \/ ActingCallsOrFolds

\* The hand is started, and the player on action keeps sending a request
\* for as long as one changes the hand.
SpecLive ==
    /\ Init
    /\ [][NextLive]_vars
    /\ WF_vars(StartRoundRPC)
    /\ WF_vars(ActingCallsOrFolds)

\* ------------------------------------------------------- reading the steps
InHand(s) == {p \in Ids(s) : s.players[p].in_hand}

\* The live bets of the hand's street, and what a player has in them.
LiveBets(s) == SelectSeq(GetRoundBetsForStatus(s, s.round.status), IsLive)

HasLive(s, p) == BetsOf(LiveBets(s), p) # <<>>

LiveTotal(s, p) == SumChips(BetsOf(LiveBets(s), p))

\* A MakeBet of a client wrote its bet row in this step; the row is the request.
BetStep == Len(bets) >= 2 /\ Len(bets') = Len(bets) + 1

Request == bets'[Len(bets')]

\* The step is a MakeBet that returned the hand without an error.
AcceptedBet ==
    BetStep /\ \E w \in Evaluations(Store) : MakeBet(Store, Request, w) = Ok(Store')

\* The step is a StartRound that returned the hand without an error.
Started == \E w \in Evaluations(Store) : StartRound(Store, w) = Ok(Store')

\* The request passes every check that comes before the branch on its type.
Acting(s, in) == MakeBetRound(s, in) = NoErr /\ MakeBetPlayer(s, in) = NoErr

\* --------------------------------------------------------------- C1
\* Every player in hand has a live bet on the street and their totals are equal.
StreetClosed(s) ==
    /\ \A p \in InHand(s) : HasLive(s, p)
    /\ \A p, q \in InHand(s) : LiveTotal(s, p) = LiveTotal(s, q)

\* No player in hand is below the largest total of the street.
NoneBehind(s) ==
    \A p \in InHand(s) : \A q \in Ids(s) : LiveTotal(s, q) <= LiveTotal(s, p)

\* C1 (as the claim states it): an accepted MakeBet after which every player in
\* hand has a live bet on the street and all their street totals are equal
\* advances the hand to the next status, bets of players who folded since
\* notwithstanding; and the hand advances only when every player in hand has a
\* live bet and none is below the largest total.
C1_ClosureAdvancesAsStated ==
    [][AcceptedBet =>
        LET after == PlaceBet(Store, Request).s
        IN  /\ StreetClosed(after) => round'.status = rMap(round.status)
            /\ round'.status # round.status =>
                    StreetClosed(after) /\ NoneBehind(after)]_vars

\* --------------------------------------------------------------- C2
\* C2 (as the claim states it): an accepted FOLD that leaves exactly one player
\* in hand ends the hand in that MakeBet: status OVER, a winner recorded, the
\* table out of the hand, and no community card dealt.
C2_FoldToOneEndsHandAsStated ==
    [][(AcceptedBet /\ Request.type = "FOLD" /\ Cardinality(InHand(Store')) = 1) =>
            /\ round'.status = OVER
            /\ round'.winning_player # 0
            /\ ~game'.in_round
            /\ <<round'.flop, round'.river, round'.turn>>
                    = <<round.flop, round.river, round.turn>>]_vars

\* --------------------------------------------------------------- C3
\* C3 (as the claim states it): in every state of a started hand, each
\* player's chips plus the chips of all the bets recorded for that player in
\* the hand equal the player's chips when StartRound was called.
C3_ChipsConservedAsStated ==
    round.status # NOT_STARTED =>
        \A p \in Ids(Store) :
            players[p].chips + SumChips(BetsOf(bets, p)) = buyIn[p]

\* --------------------------------------------------------------- C4
\* C4: with the table in a hand, the hand on a betting street and the bet's
\* status matching, a MakeBet from a player whose seat is not the action is
\* refused with PlayerNotOnAction and changes nothing; so the bets that would
\* be accepted in a state all come from one seat.
C4_TurnEnforced ==
    /\ \A in \in BetInputs(Store) :
            (MakeBetRound(Store, in) = NoErr
                /\ players[in.player].slot # round.action) =>
                \A w \in Oracle(Store, MakeBetCheck(Store, in) = NoErr) :
                    MakeBet(Store, in, w) = Fail(Store, ErrPlayerNotOnAction)
    /\ Cardinality({players[in.player].slot :
            in \in {i \in BetInputs(Store) : MakeBetCheck(Store, i) = NoErr}}) <= 1

\* A betting street where one seat has a bet accepted and another is refused.
C4_Witness ==
    \E in, out \in BetInputs(Store) :
        /\ MakeBetCheck(Store, in) = NoErr
        /\ MakeBetRound(Store, out) = NoErr
        /\ players[out.player].slot # round.action
        /\ players[out.player].in_hand

\* --------------------------------------------------------------- C5
\* C5 (amended): a CALL by the player in hand on the action is accepted exactly
\* when its chips equal the amount to call and the player has them; it is
\* refused with InsufficientBet when it is below the amount to call, else with
\* InsufficientChips when it is more than the player has, else with
\* IncorrectBetForBetType when it is above the amount to call.
C5_CallLegality ==
    \A in \in StackInputs(Store) :
        (Acting(Store, in) /\ in.type = "CALL") =>
            LET bank == players[in.player].chips
                toCall == GetAmountToCallForPlayer(Store, in.player)
                e == MakeBetCheck(Store, in)
            IN  /\ e = IF in.chips < toCall THEN ErrInsufficientBet
                       ELSE IF in.chips > bank THEN ErrInsufficientChips
                       ELSE IF in.chips > toCall THEN ErrIncorrectBetForBetType
                       ELSE NoErr
                /\ (e = NoErr) <=> (in.chips = toCall /\ bank >= in.chips)
                /\ \A w \in Evaluations(Store) :
                        (MakeBet(Store, in, w).err = NoErr) <=> (e = NoErr)

\* C5 (as the claim states it): the same, the checks applied in the order
\* InsufficientChips, InsufficientBet, IncorrectBetForBetType.
C5_CallOrderAsStated ==
    \A in \in StackInputs(Store) :
        (Acting(Store, in) /\ in.type = "CALL") =>
            LET bank == players[in.player].chips
                toCall == GetAmountToCallForPlayer(Store, in.player)
                e == MakeBetCheck(Store, in)
            IN  /\ e = IF in.chips > bank THEN ErrInsufficientChips
                       ELSE IF in.chips < toCall THEN ErrInsufficientBet
                       ELSE IF in.chips > toCall THEN ErrIncorrectBetForBetType
                       ELSE NoErr
                /\ (e = NoErr) <=> (in.chips = toCall /\ bank >= in.chips)

\* A CALL of more than the caller has and less than the amount to call.
C5_Witness ==
    \E in \in StackInputs(Store) :
        /\ Acting(Store, in) /\ in.type = "CALL"
        /\ players[in.player].chips < in.chips
        /\ in.chips < GetAmountToCallForPlayer(Store, in.player)
        /\ bets[Len(bets)].type = "RAISE"
        /\ \A p \in Ids(Store) : players[p].chips >= 0

\* --------------------------------------------------------------- C6
\* C6 (amended): a RAISE by the player in hand on the action is accepted
\* exactly when the player has its chips and they exceed the amount to call;
\* it is refused with InsufficientBet when it is below the amount to call, else
\* with InsufficientChips when it is more than the player has, else (equal to
\* the amount to call) with WrongBetType.
C6_RaiseLegality ==
    \A in \in StackInputs(Store) :
        (Acting(Store, in) /\ in.type = "RAISE") =>
            LET bank == players[in.player].chips
                toCall == GetAmountToCallForPlayer(Store, in.player)
                e == MakeBetCheck(Store, in)
            IN  /\ e = IF in.chips < toCall THEN ErrInsufficientBet
                       ELSE IF in.chips > bank THEN ErrInsufficientChips
                       ELSE IF in.chips = toCall THEN ErrWrongBetType
                       ELSE NoErr
                /\ (e = NoErr) <=> (bank >= in.chips /\ in.chips > toCall)
                /\ \A w \in Evaluations(Store) :
                        (MakeBet(Store, in, w).err = NoErr) <=> (e = NoErr)

\* C6 (as the claim states it): accepted exactly when the player has the chips
\* and they exceed the amount to call, and every RAISE that does not exceed
\* the amount to call is refused with WrongBetType.
C6_RaiseAsStated ==
    \A in \in StackInputs(Store) :
        (Acting(Store, in) /\ in.type = "RAISE") =>
            LET bank == players[in.player].chips
                toCall == GetAmountToCallForPlayer(Store, in.player)
                e == MakeBetCheck(Store, in)
            IN  /\ (e = NoErr) <=> (bank >= in.chips /\ in.chips > toCall)
                /\ in.chips <= toCall => e = ErrWrongBetType

\* A RAISE below the amount to call, and one equal to it, by a player who has
\* the chips.
C6_Witness ==
    \E low, same \in StackInputs(Store) :
        /\ Acting(Store, low) /\ low.type = "RAISE"
        /\ low.chips < GetAmountToCallForPlayer(Store, low.player)
        /\ same.player = low.player /\ same.status = low.status /\ same.type = "RAISE"
        /\ same.chips = GetAmountToCallForPlayer(Store, low.player)
        /\ same.chips <= players[low.player].chips

\* --------------------------------------------------------------- C7
\* The amount to call on a street, whatever street the hand is on.
AmountToCallOn(s, status, p) ==
    GetAmountToCallForPlayer([s EXCEPT !.round.status = status], p)

\* C7 (as the claim states it): an accepted FOLD takes the folding player out
\* of the hand, changes no player's chips, no player's total on the street and
\* no player's amount to call on it, whatever chips the request carries.
C7_FoldEffectAsStated ==
    [][(AcceptedBet /\ Request.type = "FOLD") =>
            /\ ~players'[Request.player].in_hand
            /\ \A p \in Ids(Store) :
                    /\ players'[p].chips = players[p].chips
                    /\ SumChips(BetsOf(GetRoundBetsForStatus(Store', round.status), p))
                        = SumChips(BetsOf(GetRoundBetsForStatus(Store, round.status), p))
                    /\ AmountToCallOn(Store', round.status, p)
                        = AmountToCallOn(Store, round.status, p)]_vars

\* --------------------------------------------------------------- C8
\* C8 (as the claim states it): the status never moves backward in the order
\* NOT_STARTED, PRE_FLOP, FLOP, RIVER, TURN, SHOW, OVER; a closure with two or
\* more players in hand advances it by exactly one step; once OVER it never
\* changes.
C8_StatusMonotoneAsStated ==
    [][/\ round'.status >= round.status
       /\ round.status = OVER => round'.status = OVER
       /\ (AcceptedBet /\ round'.status # round.status
                /\ Cardinality(InHand(Store')) >= 2) =>
                    round'.status = round.status + 1]_vars

\* --------------------------------------------------------------- C9
\* C9: after a successful StartRound on a hand of N players the deck holds
\* 52 - (2N + 1) cards, every player holds hole cards and is in hand, the
\* status is PRE_FLOP and the table is in a hand.
C9_StartRoundPostconditions ==
    [][Started =>
            /\ round'.deck = FullDeck - (2 * RingLen(Store) + 1)
            /\ \A p \in Ids(Store) : players'[p].cards # 0 /\ players'[p].in_hand
            /\ round'.status = PRE_FLOP
            /\ game'.in_round]_vars

\* A full table just started: eight players dealt, both blinds posted.
C9_Witness ==
    /\ RingLen(Store) = MaxSeats
    /\ Len(bets) = 2
    /\ round.deck = FullDeck - (2 * MaxSeats + 1)
    /\ round.status = PRE_FLOP
    /\ \A p \in Ids(Store) : players[p].in_hand

C11_BlindsPosted ==
    [][Started =>
        LET small == RingAt(Store', CurrentSmallBlind(Store'))
            big == RingAt(Store', CurrentBigBlind(Store'))
        IN  /\ bets' = <<[status |-> PRE_FLOP, player |-> small,
                          chips |-> game.min, type |-> "SMALL"],
                         [status |-> PRE_FLOP, player |-> big,
                          chips |-> 2 * game.min, type |-> "BIG"]>>
            /\ small # big
            /\ players'[small].chips = players[small].chips - game.min
            /\ players'[big].chips = players[big].chips - 2 * game.min
            /\ \A p \in Ids(Store) \ {small, big} :
                    players'[p].chips = players[p].chips]_vars

\* Three or more players just started: the two blinds paid, a third player
\* with the chips the hand was created with.
C11_Witness ==
    /\ RingLen(Store) >= 3
    /\ Len(bets) = 2
    /\ round.deck = FullDeck - (2 * RingLen(Store) + 1)
    /\ players[bets[1].player].chips = buyIn[bets[1].player] - game.min
    /\ players[bets[2].player].chips = buyIn[bets[2].player] - 2 * game.min
    /\ \E p \in Ids(Store) : players[p].chips = buyIn[p]

\* --------------------------------------------------------------- C12
\* The cards a deck holds after the deal to N players and the community cards
\* dealt so far, each deal burning one card.
DeckAfterDeals(s) ==
    FullDeck - (2 * RingLen(s) + 1)
        - (IF s.round.flop # 0 THEN s.round.flop + 1 ELSE 0)
        - (IF s.round.river # 0 THEN s.round.river + 1 ELSE 0)
        - (IF s.round.turn # 0 THEN s.round.turn + 1 ELSE 0)

\* C12 (as the claim states it): in every state after StartRound the deck
\* holds 51 - 2N cards, less 4 once the flop is dealt, less 2 once the river
\* is dealt, less 2 once the turn is dealt.
C12_DeckAccountingAsStated ==
    Len(bets) >= 2 => round.deck = DeckAfterDeals(Store)

\* --------------------------------------------------------------- C13
\* The seat of the first player in hand strictly after a seat, in cyclic seat
\* order; 0 when nobody is in hand.
SeatAfter(s, seat) ==
    LET seats == {s.players[p].slot : p \in InHand(s)}
        above == {x \in seats : x > seat}
    IN  IF seats = {} THEN 0
        ELSE IF above # {} THEN CHOOSE x \in above : \A y \in above : x <= y
        ELSE CHOOSE x \in seats : \A y \in seats : x <= y

\* C13: after an accepted MakeBet that does not close the street the action
\* is on the seat of the first player in hand strictly after the bettor's
\* seat in cyclic seat order, folded players skipped.
C13_ActionAdvances ==
    [][(AcceptedBet /\ ~IsBettingOver(PlaceBet(Store, Request).s)) =>
            /\ round'.status = round.status
            /\ round'.action = SeatAfter(Store', players[Request.player].slot)]_vars

\* Three players, the street still open after the last bet, and the action
\* two seats past the bettor because the player between them has folded.
C13_Witness ==
    /\ RingLen(Store) = 3
    /\ Len(bets) >= 4
    /\ bets[Len(bets)].status = round.status
    /\ ~IsBettingOver(Store)
    /\ \E p \in Ids(Store) \ InHand(Store) :
            /\ p # bets[Len(bets)].player
            /\ players[p].slot = (players[bets[Len(bets)].player].slot % 3) + 1
            /\ round.action = (players[p].slot % 3) + 1
    /\ Cardinality(InHand(Store)) = 2

\* --------------------------------------------------------------- C14
\* C14: when a hand goes to OVER, winning_player is a player of the hand whose
\* evaluator score is the lowest among the hand's players, winning_score is
\* that player's score and is not zero, and winning_hand is that player's two
\* hole cards followed by the flop, the river and the turn, seven cards.
C14_Showdown ==
    [][(round.status # OVER /\ round'.status = OVER) =>
        \E w \in Evaluations(Store) :
            /\ \/ BetStep /\ MakeBet(Store, Request, w) = Ok(Store')
               \/ SetNextRound(Store, w) = Ok(Store')
            /\ round'.winning_player \in Ids(Store)
            /\ \A q \in Ids(Store) : w.score[round'.winning_player] <= w.score[q]
            /\ round'.winning_score = w.score[round'.winning_player]
            /\ round'.winning_score # 0
            /\ round'.winning_hand = players'[round'.winning_player].cards
                    + round'.flop + round'.river + round'.turn
            /\ round'.winning_hand = 7]_vars

\* A hand that is over after bets on every street, won with the highest score
\* the evaluator gives, so every player scored the same.
C14_Witness ==
    /\ round.status = OVER
    /\ Len(bets) = MaxBets
    /\ bets[Len(bets)].status = SHOW
    /\ round.winning_score = 7462
    /\ round.winning_hand = 7

\* --------------------------------------------------------------- C15
\* C15 (as the claim states it): in every state where the stored status of the
\* hand is OVER, the stored action is 0 and the table is out of the hand.
C15_OverClearsActionAsStated ==
    round.status = OVER => (round.action = 0 /\ ~game.in_round)

\* --------------------------------------------------------------- C16
\* The errors MakeBet returns from its validation.
ValidationErrors ==
    {ErrGameIsNotInRound, ErrNoBetsAllowed, ErrWrongBetStatus, ErrPlayerNotOnAction,
     ErrPlayerNotInHand, ErrInsufficientChips, ErrInsufficientBet,
     ErrIncorrectBetForBetType, ErrWrongBetType, ErrNoBetTypeSet}

\* C16: a MakeBet that returns a validation error leaves the whole store as it
\* was: every player's chips and in_hand flag, the bets, the hand's action,
\* status, deck and community cards, and the table's in_round flag.
C16_RefusalLeavesState ==
    \A in \in StackInputs(Store) :
        \A w \in Oracle(Store, MakeBetCheck(Store, in) = NoErr) :
            LET res == MakeBet(Store, in, w)
            IN  res.err \in ValidationErrors => res.s = Store

\* A betting street where requests are refused for the street, the seat, the
\* chips of the player, the size of the bet and the type, folds among them.
C16_Witness ==
    /\ game.in_round
    /\ Len(bets) >= 3
    /\ {ErrWrongBetStatus, ErrPlayerNotOnAction, ErrInsufficientChips,
        ErrInsufficientBet, ErrIncorrectBetForBetType, ErrWrongBetType,
        ErrNoBetTypeSet}
            \subseteq {MakeBetCheck(Store, in) : in \in StackInputs(Store)}
    /\ \E in \in StackInputs(Store) :
            in.type = "FOLD" /\ MakeBetCheck(Store, in) = ErrPlayerNotOnAction

\* --------------------------------------------------------------- C18
\* C18 (as the claim states it): once StartRound has returned, no MakeBet of
\* type SMALL or BIG is accepted, so the hand keeps exactly one SMALL and one
\* BIG bet.
C18_NoClientBlindsAsStated ==
    [][AcceptedBet =>
            /\ Request.type \notin {"SMALL", "BIG"}
            /\ Len(SelectSeq(bets', LAMBDA b : b.type = "SMALL")) = 1
            /\ Len(SelectSeq(bets', LAMBDA b : b.type = "BIG")) = 1]_vars

\* --------------------------------------------------------------- C19
\* C19 (as the claim states it): in every reachable state every player's chips
\* are at least 0.
C19_ChipsNonNegativeAsStated ==
    \A p \in Ids(Store) : players[p].chips >= 0

\* --------------------------------------------------------------- C20
\* C20: with N players on seats 1..N and the dealer on one of them, heads-up
\* the small blind is the dealer's seat and the big blind the other seat; with
\* three or more the small blind is the seat after the dealer in cyclic order
\* and the big blind the seat after the small blind; the two seats differ.
C20_BlindSeats ==
    LET n == RingLen(Store)
        d == game.dealer
        small == SlotAt(Store, CurrentSmallBlind(Store))
        big == SlotAt(Store, CurrentBigBlind(Store))
    IN  ({players[p].slot : p \in Ids(Store)} = 1..n /\ d \in 1..n) =>
            /\ n = 2 => (small = d /\ big = 3 - d)
            /\ n >= 3 => (small = (d % n) + 1 /\ big = (small % n) + 1)
            /\ small # big
            /\ small \in 1..n /\ big \in 1..n

\* Heads-up with the dealer on seat 2, the hand started: the dealer posted the
\* small blind and seat 1 the big blind.
C20_Witness ==
    /\ RingLen(Store) = 2
    /\ game.dealer = 2
    /\ Len(bets) = 2
    /\ players[bets[1].player].slot = 2 /\ bets[1].type = "SMALL"
    /\ players[bets[2].player].slot = 1 /\ bets[2].type = "BIG"
    /\ SlotAt(Store, CurrentSmallBlind(Store)) = 2

\* --------------------------------------------------------------- C17
\* C17 (as the claim states it): when two MakeBet calls on a hand have run
\* with their store reads and writes interleaved, the store they leave is one
\* that running the two calls in some serial order leaves: two requests for
\* the same turn are not both accepted and no debit is lost.
C17_SerializableAsStated ==
    BothReturned =>
        \/ Store \in SerialRuns(calls[1].start, calls[1].in, calls[2].in)
        \/ Store \in SerialRuns(calls[1].start, calls[2].in, calls[1].in)

\* --------------------------------------------------------------- C21
\* The seat of the table's small blind, as the stored table gives it.
SmallBlindSeat(l, g) == SlotAt(GetGame(l, g), CurrentSmallBlind(GetGame(l, g)))

\* C21 (as the claim states it): a NextDealer that succeeds on a table with a
\* dealer leaves the dealer on the seat that was the small blind before the
\* call, and the table's min and seating as they were.
C21_ButtonRotatesAsStated ==
    \A g \in Games, req \in NextDealerRequests :
        LET res == NextDealer(lobby, g, req)
        IN  (res.err = NoErr /\ lobby.games[g].dealer # 0) =>
                /\ res.l.games[g].dealer = SmallBlindSeat(lobby, g)
                /\ res.l.games[g].min = lobby.games[g].min
                /\ res.l.gp = lobby.gp
                /\ res.l.slot = lobby.slot

\* --------------------------------------------------------------- C22
\* C22 (as the claim states it): ValidatePreGame succeeds only for a table of
\* 2 to 8 players whose seats are exactly 1..N.
C22_SeatingCheckedAsStated ==
    \A g \in Games :
        LET s == GetGame(lobby, g)
            n == Cardinality(Ids(s))
        IN  ValidatePreGame(s) = NoErr =>
                /\ MinSeats <= n /\ n <= MaxSeats
                /\ {s.players[p].slot : p \in Ids(s)} = 1..n

\* --------------------------------------------------------------- C23
\* C23 (as the claim states it): RemovePlayerFromGame fails with
\* PlayerDoesntExist for a player joined to no table and with GameInRound for
\* a player whose table is in a hand, a failure changes no membership, and a
\* success for a player on a table not in a hand removes exactly that player
\* from that table.
C23_RemovePlayerAsStated ==
    \A p \in LobbyPlayers : \A res \in RemovePlayerFromGame(lobby, p) :
        /\ (\A g \in Games : <<g, p>> \notin lobby.gp) =>
                res = LFail(lobby, ErrPlayerDoesntExist)
        /\ \A g \in Games :
                /\ (<<g, p>> \in lobby.gp /\ lobby.games[g].in_round) =>
                        res = LFail(lobby, ErrGameInRound)
                /\ (<<g, p>> \in lobby.gp /\ ~lobby.games[g].in_round
                        /\ res.err = NoErr) =>
                        res.l = [lobby EXCEPT !.gp = @ \ {<<g, p>>}]
        /\ res.err # NoErr => res.l = lobby

\* --------------------------------------------------------------- C24
\* What a StartRound or a legal request of the player on action makes of the
\* hand.
Moves(s) ==
    {StartRound(s, w).s : w \in Evaluations(s)}
        \cup {MakeBet(s, in, w).s : in \in LegalBets(s), w \in Evaluations(s)}

\* Nothing the player on action may send changes the hand any more.
AtRest(s) == Moves(s) \subseteq {s}

\* C24 (as the claim states it): when the player on action always ends up
\* sending a legal CALL or FOLD, the hand reaches OVER; it never stays in a
\* betting status for ever.  Every step of SpecLive starts the hand or adds
\* a bet row, so a behaviour ends in a state it does not leave, and under the
\* fairness of SpecLive that state is at rest: the claim is that a hand at
\* rest is OVER.
C24_HandTerminatesAsStated == AtRest(Store) => round.status = OVER

\* --------------------------------------------------------------- C25
\* C25 (as the claim states it): a player recorded as the winner of the hand
\* is in hand at the moment of the recording; a player who folded is never
\* recorded as the winner.
C25_WinnerInHandAsStated ==
    [][(round.winning_player = 0 /\ round'.winning_player # 0) =>
            players'[round'.winning_player].in_hand]_vars

\* --------------------------------------------------------------- C26
\* C26 (as the claim states it): while the table is in a hand and the hand is
\* in one of PRE_FLOP, FLOP, RIVER, TURN, SHOW, the action is the seat of a
\* player who is in hand.
C26_ActionOnLivePlayerAsStated ==
    (game.in_round /\ statusIsValidForBet(round.status)) =>
        \E p \in InHand(Store) : players[p].slot = round.action

\* --------------------------------------------------------------- C27
\* max(0, B - P) over the CALL, RAISE, SMALL and BIG rows of the street.
LiveAmountToCall(s, p) ==
    LET B == Max({0} \cup {LiveTotal(s, q) : q \in Ids(s)})
        P == LiveTotal(s, p)
    IN  Max({0, B - P})

\* C27 (as the claim states it): in every state of a street and for every
\* player, GetAmountToCallForPlayer returns max(0, B - P), the totals being
\* summed over the CALL, RAISE, SMALL and BIG rows of the hand's status only.
C27_AmountToCallAsStated ==
    statusIsValidForBet(round.status) =>
        \A p \in Ids(Store) :
            GetAmountToCallForPlayer(Store, p) = LiveAmountToCall(Store, p)

\* --------------------------------------------------------------- C28
\* C28: every step that takes the hand into FLOP, RIVER, TURN or SHOW leaves
\* the action on the seat of the first player in hand strictly after the
\* dealer's seat in cyclic seat order, whoever acted last on the street
\* before.
C28_StreetStartAction ==
    [][(round'.status # round.status /\ round'.status \in {FLOP, RIVER, TURN, SHOW}) =>
            round'.action = SeatAfter(Store', game.dealer)]_vars

\* Three players, a street just opened after a bet that closed the one
\* before, and the action on the first seat in hand after the dealer, which
\* is not the seat that follows the last bettor.
C28_Witness ==
    /\ RingLen(Store) = 3
    /\ round.status \in {FLOP, RIVER, TURN, SHOW}
    /\ Len(bets) >= 3
    /\ GetRoundBetsForStatus(Store, round.status) = <<>>
    /\ round.action = SeatAfter(Store, game.dealer)
    /\ round.action # SeatAfter(Store, players[bets[Len(bets)].player].slot)

OrderedErrors ==
    {ErrGameIsNotInRound, ErrNoBetsAllowed, ErrWrongBetStatus,
     ErrPlayerNotOnAction, ErrPlayerNotInHand}

\* C30: the first check of MakeBet that fails gives the error, in the order
\* GameIsNotInRound (table not in a hand), NoBetsAllowed (status NOT_STARTED
\* or OVER), WrongBetStatus (the bet's status is not the hand's),
\* PlayerNotOnAction, PlayerNotInHand, and only then the checks of the bet
\* type.
C30_CheckOrder ==
    \A in \in StackInputs(Store) :
        \A w \in Oracle(Store, MakeBetCheck(Store, in) = NoErr) :
            LET err == MakeBet(Store, in, w).err
                p == players[in.player]
            IN  IF ~game.in_round THEN err = ErrGameIsNotInRound
                ELSE IF round.status \in {NOT_STARTED, OVER} THEN err = ErrNoBetsAllowed
                ELSE IF in.status # round.status THEN err = ErrWrongBetStatus
                ELSE IF p.slot # round.action THEN err = ErrPlayerNotOnAction
                ELSE IF ~p.in_hand THEN err = ErrPlayerNotInHand
                ELSE err \notin OrderedErrors

\* A street has just opened, and a bet with the status of the street before
\* sent by the player on action is refused with WrongBetStatus; sent by a
\* player who is not on action it is refused with WrongBetStatus as well.
C30_Witness ==
    /\ game.in_round
    /\ round.status = FLOP
    /\ GetRoundBetsForStatus(Store, FLOP) = <<>>
    /\ \E in \in StackInputs(Store) :
            /\ in.status = PRE_FLOP
            /\ players[in.player].slot = round.action
            /\ players[in.player].in_hand
            /\ MakeBet(Store, in, NoShowdown(Store)) = Fail(Store, ErrWrongBetStatus)
    /\ \E in \in StackInputs(Store) :
            /\ in.status = PRE_FLOP
            /\ players[in.player].slot # round.action
            /\ MakeBet(Store, in, NoShowdown(Store)) = Fail(Store, ErrWrongBetStatus)

\* --------------------------------------------------------------- C31
\* The community cards the status of the hand calls for.
CommunityCards(status) ==
    [flop |-> IF status >= FLOP THEN 3 ELSE 0,
     river |-> IF status >= RIVER THEN 1 ELSE 0,
     turn |-> IF status >= TURN THEN 1 ELSE 0]

\* C31 (as the claim states it): in every state of a hand the flop is empty in NOT_STARTED and
\* PRE_FLOP and holds 3 cards from FLOP on, the river is empty before RIVER
\* and holds 1 card from RIVER on, the turn is empty before TURN and holds 1
\* card from TURN on; a community field that is set is not dealt again.
C31_CommunityCardsAsStated ==
    /\ [](/\ round.flop = CommunityCards(round.status).flop
          /\ round.river = CommunityCards(round.status).river
          /\ round.turn = CommunityCards(round.status).turn)
    /\ [][/\ round.flop # 0 => (round'.flop = round.flop /\ round'.status >= FLOP)
          /\ round.river # 0 => (round'.river = round.river /\ round'.status >= RIVER)
          /\ round.turn # 0 => (round'.turn = round.turn /\ round'.status >= TURN)]_vars

\* --------------------------------------------------------------- C32
\* C32 (as the claim states it): a StartRound refused with ExistingCards
\* leaves the hand's deck, status, action and bets, the players' cards, chips
\* and in_hand flags and the table's in_round flag as they were.
C32_RefusedStartKeepsHandAsStated ==
    \A w \in Oracle(Store, FALSE) :
        LET res == StartRound(Store, w)
        IN  res.err = ErrExistingCards => res.s = Store

\* --------------------------------------------------------------- C33
\* A hand whose StartRound stopped after the cards and the status were
\* written and before both blinds were posted.
PartialStart(s) == s.round.status = PRE_FLOP /\ Len(s.bets) < 2

C34_NextHandStartsAsStated ==
    (round.status = OVER /\ ~game.in_round) =>
        LET next == [Store EXCEPT
                        !.round = [status |-> NOT_STARTED, action |-> 0,
                                   deck |-> FullDeck, flop |-> 0, river |-> 0,
                                   turn |-> 0, winning_player |-> 0,
                                   winning_score |-> 0, winning_hand |-> 0],
                        !.bets = <<>>]
        IN  StartRound(next, NoShowdown(next)).err = NoErr

\* C35: only the hand's own players can bet.  With one more row in the
\* players table, a player of another table on any seat, in a hand there or
\* not, every bet that names this player for this table and hand is refused
\* by the checks of MakeBet.  (The checks read the players table by id, the
\* hand's action and the hand's bets.)
C35_OutsiderRefusedAsStated ==
    \A seat \in 1..MaxPlayers, inHand \in BOOLEAN :
        LET guest == Cardinality(Ids(Store)) + 1
            table == [Store EXCEPT !.players =
                        [p \in 1..guest |->
                            IF p < guest THEN players[p]
                            ELSE [chips |-> CHOOSE c \in StartChips : TRUE,
                                  slot |-> seat, in_hand |-> inHand,
                                  cards |-> IF inHand THEN 2 ELSE 0]]]
        IN  \A in \in BetInputs(table) :
                in.player = guest => MakeBetCheck(table, in) # NoErr

\* C36: seating is frozen during a hand.  While a table's in_round flag is
\* up, no step changes the set of players joined to the table or the slot of
\* a joined player.
C36_SeatingFrozenAsStated ==
    [][\A g \in Games :
          lobby.games[g].in_round =>
              /\ GetGamePlayersByGameId(lobby', g) = GetGamePlayersByGameId(lobby, g)
              /\ \A p \in GetGamePlayersByGameId(lobby, g) :
                      lobby'.slot[p] = lobby.slot[p]]_vars

\* C37: a live hand only on a table in a hand.  Whenever the hand's status
\* is one of PRE_FLOP, FLOP, RIVER, TURN, SHOW, the table's in_round flag is
\* up.
C37_LiveHandInRoundAsStated ==
    round.status \in PRE_FLOP..SHOW => game.in_round

\* C38: no card is duplicated.  The cards left in the hand's deck, the hole
\* cards of the hand's players and the flop, river and turn are distinct
\* cards of one deck, so together they are never more than a full deck.
C38_NoCardTwiceAsStated ==
    round.deck + 2 * Cardinality({p \in Ids(Store) : players[p].cards # 0})
        + round.flop + round.river + round.turn <= FullDeck

\* C39: the dealer seat is occupied.  On every table ValidatePreGame accepts,
\* the dealer is the slot of a player joined to the table.
C39_DealerSeatedAsStated ==
    \A g \in Games :
        ValidatePreGame(GetGame(lobby, g)) = NoErr =>
            \E p \in GetGamePlayersByGameId(lobby, g) :
                lobby.slot[p] = lobby.games[g].dealer

====
